---- MODULE Spec2Model ----
(***************************************************************************)
(* The "path" core module of napajs (src/module/core-modules/node/path.cpp)*)
(* as a state machine: one call of one exported callback at a time on an   *)
(* isolate, with the process-wide current directory changed concurrently   *)
(* by other threads.                                                       *)
(*                                                                         *)
(* A string is a sequence of one-character strings.  filesystem::Path and  *)
(* filesystem::CurrentDirectory live in platform/filesystem.h, which is    *)
(* not part of the sources at hand; their operators below follow the       *)
(* design document (sections 3 and 4) and are marked as such.              *)
(***************************************************************************)
EXTENDS Integers, Sequences, FiniteSets, TLC

VARIABLES
    platformStyle,  \* "posix" or "windows": the grammar the build was made for
    cwd,            \* the process-wide current working directory
    args,           \* v8::FunctionCallbackInfo: the argument list of the call
    op,             \* the callback entered last ("none" before the first call)
    pc,             \* position inside ResolveCallback: "idle", "loop"
    path,           \* ResolveCallback's local `path`
    i,              \* ResolveCallback's loop index (0-based, as in the code)
    reads,          \* the values CurrentDirectory() returned during this call
    ret,            \* args.GetReturnValue()
    thrown          \* the pending exception's message, "" when none

vars == <<platformStyle, cwd, args, op, pc, path, i, reads, ret, thrown>>

-----------------------------------------------------------------------------
(* Bounds of the model.                                                    *)

\* longest path string given to normalize
MaxLen == 6
\* most characters over the two arguments of a basename, join or relative call
MaxPairLen == 4
\* most characters over the parts of a resolve call
MaxTotal == 3
\* most parts in a resolve call
MaxParts == 2
\* most arguments in the call-boundary specification
MaxArgs == 3

-----------------------------------------------------------------------------
(* Characters and strings.                                                 *)

Chars == {"/", "\\", ".", ":", "c", "d"}

Dot == <<".">>
DotDot == <<".", ".">>

Strings(n) == UNION {[1..k -> Chars] : k \in 0..n}

IsSeparator(ch) == ch \in {"/", "\\"}

IsDriveLetter(ch) == ch \in {"c", "d"}

\* platform::DIR_SEPARATOR
Sep(style) == IF style = "windows" THEN "\\" ELSE "/"

Tail2(s) == SubSeq(s, 3, Len(s))

RECURSIVE Flatten(_, _)
Flatten(segs, sep) ==
    IF segs = <<>> THEN <<>>
    ELSE IF Len(segs) = 1 THEN segs[1]
    ELSE segs[1] \o <<sep>> \o Flatten(Tail(segs), sep)

-----------------------------------------------------------------------------
(* Parser (design 4.1): split on both separators, detect the root prefix.  *)

RECURSIVE SplitFrom(_, _, _, _)
SplitFrom(raw, k, cur, acc) ==
    IF k > Len(raw)
    THEN IF cur = <<>> THEN acc ELSE Append(acc, cur)
    ELSE IF IsSeparator(raw[k])
         THEN SplitFrom(raw, k + 1, <<>>, IF cur = <<>> THEN acc ELSE Append(acc, cur))
         ELSE SplitFrom(raw, k + 1, Append(cur, raw[k]), acc)

\* the non-empty components between separators
Split(raw) == SplitFrom(raw, 1, <<>>, <<>>)

HasDrive(raw) == Len(raw) >= 2 /\ IsDriveLetter(raw[1]) /\ raw[2] = ":"

\* UNC prefixes (\\host\share) need a host and a share name; within the lengths
\* explored here a leading separator run is the bare root.
Parse(raw, style) ==
    IF style = "windows" /\ HasDrive(raw)
    THEN [rootPrefix |-> <<raw[1], ":", Sep(style)>>,
          segments |-> Split(Tail2(raw)),
          isAbsolute |-> TRUE,
          hasTrailingSeparator |-> IsSeparator(raw[Len(raw)])]
    ELSE IF raw # <<>> /\ (raw[1] = "/" \/ (style = "windows" /\ IsSeparator(raw[1])))
    THEN [rootPrefix |-> <<Sep(style)>>,
          segments |-> Split(raw),
          isAbsolute |-> TRUE,
          hasTrailingSeparator |-> Len(raw) > 1 /\ IsSeparator(raw[Len(raw)])]
    ELSE [rootPrefix |-> <<>>,
          segments |-> Split(raw),
          isAbsolute |-> FALSE,
          hasTrailingSeparator |-> raw # <<>> /\ IsSeparator(raw[Len(raw)])]

\* Path::IsAbsolute (design 4.6)
IsAbsolute(raw, style) == Parse(raw, style).isAbsolute

-----------------------------------------------------------------------------
(* Normalizer (design 4.2).                                                *)

\* The output stack: '.' is skipped; '..' pops the last pushed name; with no
\* name to pop it is discarded in an absolute path and kept in a relative one
\* ("relative paths may legitimately walk above their own origin", so a kept
\* '..' is never itself popped).
RECURSIVE Collapse(_, _, _, _)
Collapse(segs, k, abs, out) ==
    IF k > Len(segs) THEN out
    ELSE IF segs[k] = Dot THEN Collapse(segs, k + 1, abs, out)
    ELSE IF segs[k] = DotDot
         THEN IF out # <<>> /\ out[Len(out)] # DotDot
              THEN Collapse(segs, k + 1, abs, SubSeq(out, 1, Len(out) - 1))
              ELSE IF abs THEN Collapse(segs, k + 1, abs, out)
                   ELSE Collapse(segs, k + 1, abs, Append(out, DotDot))
         ELSE Collapse(segs, k + 1, abs, Append(out, segs[k]))

\* Path::Normalize().String(): serialized with the preferred separator, the
\* root prefix first; an empty relative result is "."
Normalize(raw, style) ==
    LET p == Parse(raw, style)
        out == Collapse(p.segments, 1, p.isAbsolute, <<>>)
    IN  IF out = <<>> /\ ~p.isAbsolute THEN Dot
        ELSE p.rootPrefix \o Flatten(out, Sep(style))

-----------------------------------------------------------------------------
(* Path::operator/= : a later absolute part replaces what came before      *)
(* (design 4.4, and the examples above ResolveCallback); otherwise the     *)
(* part is added after one separator (design 4.3).                         *)

AppendPath(base, next, style) ==
    IF IsAbsolute(next, style) \/ base = <<>> THEN next
    ELSE IF IsSeparator(base[Len(base)]) THEN base \o next
    ELSE base \o <<Sep(style)>> \o next

\* Path::Absolute(): anchors a relative path to the current directory (glossary:
\* anchoring); `dir` is what CurrentDirectory() returns at that moment
Absolute(raw, dir, style) ==
    IF IsAbsolute(raw, style) THEN raw ELSE AppendPath(dir, raw, style)

-----------------------------------------------------------------------------
(* Decomposer (design 4.5).                                                *)

\* Path::Filename(): the last segment, or the empty string
Filename(raw, style) ==
    LET segs == Parse(raw, style).segments
    IN  IF segs = <<>> THEN <<>> ELSE segs[Len(segs)]

\* Path::Dirname(): the path without its last segment
Dirname(raw, style) ==
    LET p == Parse(raw, style)
    IN  IF Len(p.segments) <= 1
        THEN IF p.isAbsolute THEN p.rootPrefix ELSE Dot
        ELSE p.rootPrefix \o Flatten(SubSeq(p.segments, 1, Len(p.segments) - 1), Sep(style))

\* Path::Extension(): from the last '.' of the last segment, unless that '.'
\* is the segment's first character
Extension(raw, style) ==
    LET name == Filename(raw, style)
        dots == {k \in 1..Len(name) : name[k] = "."}
        last == CHOOSE k \in dots : \A j \in dots : j <= k
    IN  IF dots = {} \/ last = 1 THEN <<>> ELSE SubSeq(name, last, Len(name))

-----------------------------------------------------------------------------
(* RelativePathComputer (design 4.7).                                      *)

RECURSIVE CommonLen(_, _, _)
CommonLen(a, b, k) ==
    IF k < Len(a) /\ k < Len(b) /\ a[k + 1] = b[k + 1] THEN CommonLen(a, b, k + 1) ELSE k

Ups(n) == [k \in 1..n |-> DotDot]

\* Path(to).Relative(from), both anchored to `dir` and normalized first
Relative(to, from, dir, style) ==
    LET f == Parse(Normalize(Absolute(from, dir, style), style), style)
        t == Parse(Normalize(Absolute(to, dir, style), style), style)
        n == CommonLen(f.segments, t.segments, 0)
        out == Ups(Len(f.segments) - n) \o SubSeq(t.segments, n + 1, Len(t.segments))
    IN  IF f.rootPrefix # t.rootPrefix THEN t.rootPrefix \o Flatten(t.segments, Sep(style))
        ELSE IF out = <<>> THEN Dot
        ELSE Flatten(out, Sep(style))

-----------------------------------------------------------------------------
(* JavaScript values and the call boundary.                                *)

Styles == {"posix", "windows"}

\* the directory the process starts in
Home(style) == IF style = "windows" THEN <<"c", ":", "\\">> ELSE <<"/">>

\* what filesystem::CurrentDirectory() can return: absolute, normalized
Dirs(style) ==
    {Home(style), IF style = "windows" THEN <<"d", ":", "\\", "c">> ELSE <<"/", "d">>}

StrVal(s) == [type |-> "string", utf8 |-> s]

NonStrings == {[type |-> "number", utf8 |-> <<>>], [type |-> "undefined", utf8 |-> <<>>]}

\* v8::Value::IsString
IsString(v) == v.type = "string"

Unset == [kind |-> "unset", str |-> <<>>, bool |-> FALSE]

StringValue(s) == [kind |-> "string", str |-> s, bool |-> FALSE]

BooleanValue(b) == [kind |-> "boolean", str |-> <<>>, bool |-> b]

\* the strings of an argument list whose elements are all strings
Utf8(list) == [k \in 1..Len(list) |-> list[k].utf8]

AllStrings(list) == \A k \in 1..Len(list) : IsString(list[k])

-----------------------------------------------------------------------------
(* What each callback computes from its string arguments.                  *)

\* (variant) the path string returned as given, Normalize() left out
NormalizeValueRaw(raw, style) == raw

\* filesystem::Path(*utf8Path).Normalize().String()
NormalizeValue(raw, style) == Normalize(raw, style)

\* path /= *nextPath, for the parts from index k on
RECURSIVE AppendAll(_, _, _, _)
AppendAll(acc, parts, k, style) ==
    IF k > Len(parts) THEN acc
    ELSE AppendAll(AppendPath(acc, parts[k], style), parts, k + 1, style)

\* (variant) Normalize() left out of the returned value
ResolveValueRaw(p, dir, style) == Absolute(p, dir, style)

\* path.Absolute().Normalize().String()
ResolveValue(p, dir, style) == Normalize(Absolute(p, dir, style), style)

\* JoinCallback's loop starts at the second argument: for (int i = 1; ...)
JoinFirstIndex == 1

\* ResolveCallback's loop starts at the first argument: for (int i = 0; ...)
ResolveFirstIndex == 0

\* Path(args[0]), then /= every later argument, then Normalize().String()
JoinValue(parts, style) ==
    Normalize(AppendAll(parts[1], parts, JoinFirstIndex + 1, style), style)

\* std::string::find: the 0-based position of the first occurrence, -1 for npos
Find(s, sub) ==
    LET hits == {k \in 0..(Len(s) - Len(sub)) : SubSeq(s, k + 1, k + Len(sub)) = sub}
    IN  IF hits = {} THEN -1 ELSE CHOOSE k \in hits : \A j \in hits : k <= j

\* fileName.find(*extension), then fileName.substr(0, pos) when found
StripExtension(fileName, extension) ==
    LET pos == Find(fileName, extension)
    IN  IF pos # -1 THEN SubSeq(fileName, 1, pos) ELSE fileName

\* (variant) the two arguments taken in the other order
RelativeValueSwapped(from, to, dir, style) == Relative(from, to, dir, style)

\* filesystem::Path(*to).Relative(*from).String()
RelativeValue(from, to, dir, style) == Relative(to, from, dir, style)

-----------------------------------------------------------------------------
(* The callbacks.  CHECK_ARG throws and returns when its condition fails.  *)

NormalizeCallback ==
    /\ pc = "idle"
    /\ op' = "normalize"
    /\ reads' = <<>>
    /\ IF Len(args) = 1 /\ IsString(args[1])
       THEN /\ ret' = StringValue(NormalizeValue(args[1].utf8, platformStyle))
            /\ thrown' = ""
       ELSE /\ ret' = Unset
            /\ thrown' = "path.normalize requires 1 string parameter of file path."
    /\ UNCHANGED <<platformStyle, cwd, args, pc, path, i>>

\* (variant) the current directory is not read at the start of the call
ResolveEnterLazy ==
    /\ pc = "idle"
    /\ op' = "resolve"
    /\ ret' = Unset
    /\ i' = ResolveFirstIndex
    /\ path' = <<>>
    /\ reads' = <<>>
    /\ IF Len(args) > 0
       THEN /\ thrown' = ""
            /\ pc' = "loop"
       ELSE /\ thrown' = "path.resolve requires at least one string parameters."
            /\ pc' = "idle"
    /\ UNCHANGED <<platformStyle, cwd, args>>

\* lines 156-164: the arity check, then path = CurrentDirectory()
ResolveEnter ==
    /\ pc = "idle"
    /\ op' = "resolve"
    /\ ret' = Unset
    /\ i' = ResolveFirstIndex
    /\ IF Len(args) > 0
       THEN /\ thrown' = ""
            /\ path' = cwd
            /\ reads' = <<cwd>>
            /\ pc' = "loop"
       ELSE /\ thrown' = "path.resolve requires at least one string parameters."
            /\ path' = <<>>
            /\ reads' = <<>>
            /\ pc' = "idle"
    /\ UNCHANGED <<platformStyle, cwd, args>>

\* lines 166-173: one iteration of the loop
ResolveLoop ==
    /\ pc = "loop"
    /\ i < Len(args)
    /\ IF IsString(args[i + 1])
       THEN /\ path' = AppendPath(path, args[i + 1].utf8, platformStyle)
            /\ i' = i + 1
            /\ UNCHANGED <<pc, thrown>>
       ELSE /\ thrown' = "path.resolve doesn't accept non-string argument."
            /\ pc' = "idle"
            /\ UNCHANGED <<path, i>>
    /\ UNCHANGED <<platformStyle, cwd, args, op, reads, ret>>

\* (variant) the arguments are anchored to the current directory as it is at
\* the end of the call
ResolveReturnLate ==
    /\ pc = "loop"
    /\ i = Len(args)
    /\ ret' = StringValue(Normalize(AppendAll(cwd, Utf8(args), 1, platformStyle), platformStyle))
    /\ reads' = Append(reads, cwd)
    /\ pc' = "idle"
    /\ UNCHANGED <<platformStyle, cwd, args, op, path, i, thrown>>

\* line 174: Absolute() asks for the current directory only for a relative path
ResolveReturn ==
    /\ pc = "loop"
    /\ i = Len(args)
    /\ ret' = StringValue(ResolveValue(path, cwd, platformStyle))
    /\ reads' = IF IsAbsolute(path, platformStyle) THEN reads ELSE Append(reads, cwd)
    /\ pc' = "idle"
    /\ UNCHANGED <<platformStyle, cwd, args, op, path, i, thrown>>

\* (variant) only the first argument is checked
JoinCallbackFirstOnly ==
    /\ pc = "idle"
    /\ op' = "join"
    /\ reads' = <<>>
    /\ IF Len(args) > 0 /\ IsString(args[1])
       THEN /\ ret' = StringValue(JoinValue(Utf8(args), platformStyle))
            /\ thrown' = ""
       ELSE /\ ret' = Unset
            /\ thrown' = "path.join requires at least one string parameters."
    /\ UNCHANGED <<platformStyle, cwd, args, pc, path, i>>

JoinCallback ==
    /\ pc = "idle"
    /\ op' = "join"
    /\ reads' = <<>>
    /\ IF Len(args) > 0 /\ IsString(args[1])
       THEN IF AllStrings(args)
            THEN /\ ret' = StringValue(JoinValue(Utf8(args), platformStyle))
                 /\ thrown' = ""
            ELSE /\ ret' = Unset
                 /\ thrown' = "path.join doesn't accept non-string argument."
       ELSE /\ ret' = Unset
            /\ thrown' = "path.join requires at least one string parameters."
    /\ UNCHANGED <<platformStyle, cwd, args, pc, path, i>>

DirnameCallback ==
    /\ pc = "idle"
    /\ op' = "dirname"
    /\ reads' = <<>>
    /\ IF Len(args) = 1 /\ IsString(args[1])
       THEN /\ ret' = StringValue(Dirname(args[1].utf8, platformStyle))
            /\ thrown' = ""
       ELSE /\ ret' = Unset
            /\ thrown' = "path.dirname requires 1 string parameter of file path."
    /\ UNCHANGED <<platformStyle, cwd, args, pc, path, i>>

BasenameCallback ==
    /\ pc = "idle"
    /\ op' = "basename"
    /\ reads' = <<>>
    /\ IF ~(Len(args) = 1 \/ Len(args) = 2)
       THEN /\ ret' = Unset
            /\ thrown' = "path.basename takes 1 required argument of file path and 1 optional argument of extension"
       ELSE IF ~IsString(args[1])
       THEN /\ ret' = Unset
            /\ thrown' = "path.basename requires a string parameter of file path."
       ELSE IF Len(args) = 2 /\ ~IsString(args[2])
       THEN /\ ret' = Unset
            /\ thrown' = "path.basename requires a string as 2nd parameter of extension."
       ELSE /\ ret' = StringValue(
                        IF Len(args) = 2
                        THEN StripExtension(Filename(args[1].utf8, platformStyle), args[2].utf8)
                        ELSE Filename(args[1].utf8, platformStyle))
            /\ thrown' = ""
    /\ UNCHANGED <<platformStyle, cwd, args, pc, path, i>>

ExtnameCallback ==
    /\ pc = "idle"
    /\ op' = "extname"
    /\ reads' = <<>>
    /\ IF Len(args) = 1 /\ IsString(args[1])
       THEN /\ ret' = StringValue(Extension(args[1].utf8, platformStyle))
            /\ thrown' = ""
       ELSE /\ ret' = Unset
            /\ thrown' = "path.extname requires 1 string parameter of file path."
    /\ UNCHANGED <<platformStyle, cwd, args, pc, path, i>>

IsAbsoluteCallback ==
    /\ pc = "idle"
    /\ op' = "isAbsolute"
    /\ reads' = <<>>
    /\ IF Len(args) = 1 /\ IsString(args[1])
       THEN /\ ret' = BooleanValue(IsAbsolute(args[1].utf8, platformStyle))
            /\ thrown' = ""
       ELSE /\ ret' = Unset
            /\ thrown' = "path.isAbsolute requires 1 string parameter of file path."
    /\ UNCHANGED <<platformStyle, cwd, args, pc, path, i>>

RelativeCallback ==
    /\ pc = "idle"
    /\ op' = "relative"
    /\ IF Len(args) = 2 /\ IsString(args[1]) /\ IsString(args[2])
       THEN /\ ret' = StringValue(RelativeValue(args[1].utf8, args[2].utf8, cwd, platformStyle))
            /\ reads' = IF IsAbsolute(args[1].utf8, platformStyle)
                           /\ IsAbsolute(args[2].utf8, platformStyle)
                        THEN <<>> ELSE <<cwd>>
            /\ thrown' = ""
       ELSE /\ ret' = Unset
            /\ reads' = <<>>
            /\ thrown' = "path.relative requires 2 arguments of string type."
    /\ UNCHANGED <<platformStyle, cwd, args, pc, path, i>>

\* another thread changes the process-wide current directory
ChDir ==
    /\ \E d \in Dirs(platformStyle) \ {cwd} : cwd' = d
    /\ UNCHANGED <<platformStyle, args, op, pc, path, i, reads, ret, thrown>>

-----------------------------------------------------------------------------
(* Specifications.                                                         *)

\* every way to cut s into exactly n consecutive parts
RECURSIVE Cuts(_, _)
Cuts(s, n) ==
    IF n = 1 THEN {<<s>>}
    ELSE UNION {{<<SubSeq(s, 1, k)>> \o rest : rest \in Cuts(SubSeq(s, k + 1, Len(s)), n - 1)}
                   : k \in 0..Len(s)}

StringArgs(lists) == {[k \in 1..Len(l) |-> StrVal(l[k])] : l \in lists}

\* the call has 1..parts string arguments with at most `total` characters in all
DrawParts(total, parts) ==
    \E s \in Strings(total), n \in 1..parts : args \in StringArgs(Cuts(s, n))

SampleStrings == {<<>>, <<"c">>, <<"/", "c">>, <<".", ".">>}

Values == {StrVal(s) : s \in SampleStrings} \cup NonStrings

AnyDir == UNION {Dirs(style) : style \in Styles}

HomeOnly == {Home(style) : style \in Styles}

\* before the first call, in one of the directories `dirs`
InitIdle(dirs) ==
    /\ platformStyle \in Styles
    /\ cwd \in dirs \cap Dirs(platformStyle)
    /\ op = "none"
    /\ pc = "idle"
    /\ path = <<>>
    /\ i = 0
    /\ reads = <<>>
    /\ ret = Unset
    /\ thrown = ""

\* the call boundary: any callback, any argument list, strings or not
Init ==
    /\ InitIdle(AnyDir)
    /\ \E n \in 0..MaxArgs : args \in [1..n -> Values]

Next ==
    \/ NormalizeCallback
    \/ ResolveEnter
    \/ ResolveLoop
    \/ ResolveReturn
    \/ JoinCallback
    \/ DirnameCallback
    \/ BasenameCallback
    \/ ExtnameCallback
    \/ IsAbsoluteCallback
    \/ RelativeCallback
    \/ ChDir

Spec == Init /\ [][Next]_vars

\* normalize on every string up to MaxLen
InitNormalize == InitIdle(HomeOnly) /\ DrawParts(MaxLen, 1)

NextNormalize == NormalizeCallback

SpecNormalize == InitNormalize /\ [][NextNormalize]_vars

\* basename on a path, alone or with a suffix
InitBasename == InitIdle(HomeOnly) /\ DrawParts(MaxPairLen, 2)

NextBasename == BasenameCallback

SpecBasename == InitBasename /\ [][NextBasename]_vars

\* resolve, step by step, while other threads change the current directory
InitResolve == InitIdle(AnyDir) /\ DrawParts(MaxTotal, MaxParts)

NextResolve == ResolveEnter \/ ResolveLoop \/ ResolveReturn \/ ChDir

SpecResolve == InitResolve /\ [][NextResolve]_vars

\* join while other threads change the current directory
InitJoin == InitIdle(AnyDir) /\ DrawParts(MaxPairLen, 2)

NextJoin == JoinCallback \/ ChDir

SpecJoin == InitJoin /\ [][NextJoin]_vars

\* relative on two paths, under each current directory
InitRelative ==
    /\ InitIdle(AnyDir)
    /\ \E s \in Strings(MaxPairLen) : args \in StringArgs(Cuts(s, 2))

NextRelative == RelativeCallback

SpecRelative == InitRelative /\ [][NextRelative]_vars

-----------------------------------------------------------------------------
(* Properties.                                                             *)

\* callback o has returned a value
Returned(o) == pc = "idle" /\ op = o /\ ret.kind # "unset"

Parts == Utf8(args)

AbsoluteParts == {k \in 1..Len(args) : IsAbsolute(args[k].utf8, platformStyle)}

LastAbsolute == CHOOSE k \in AbsoluteParts : \A j \in AbsoluteParts : j <= k

NoDots(segs) == \A k \in 1..Len(segs) : segs[k] # Dot /\ segs[k] # DotDot

\* C1: a value resolve returns is an absolute path in normalized form: no '.',
\* '..' or empty segment, and normalize leaves it as it is.
C1_ResolveAbsoluteNormalized ==
    Returned("resolve") =>
        /\ IsAbsolute(ret.str, platformStyle)
        /\ NoDots(Parse(ret.str, platformStyle).segments)
        /\ Normalize(ret.str, platformStyle) = ret.str

C1_Witness ==
    /\ Returned("resolve")
    /\ AbsoluteParts = {}
    /\ \E k \in 1..Len(args) : DotDot \in {Split(Parts[k])[j] : j \in 1..Len(Split(Parts[k]))}

\* C2: when some part is absolute, resolve returns normalize of the last
\* absolute part followed by the parts after it; the earlier parts and the
\* current directory contribute nothing.
C2_LastAbsoluteWins ==
    (Returned("resolve") /\ AbsoluteParts # {}) =>
        ret.str = Normalize(AppendAll(Parts[LastAbsolute], Parts, LastAbsolute + 1, platformStyle),
                            platformStyle)

C2_Witness ==
    /\ Returned("resolve")
    /\ Len(args) = 2
    /\ AbsoluteParts = {2}
    /\ Parts[1] # <<>>
    /\ ret.str = Normalize(Parts[2], platformStyle)

\* C4: a resolve call reads the current directory exactly once, and the value
\* it returns is the one obtained by anchoring its arguments to that one
\* snapshot, whatever other threads did to the current directory meanwhile.
C4_OneSnapshot ==
    Returned("resolve") =>
        /\ Len(reads) = 1
        /\ ret.str = Normalize(AppendAll(reads[1], Parts, 1, platformStyle), platformStyle)

C4_Witness ==
    /\ Returned("resolve")
    /\ AbsoluteParts = {}
    /\ Len(reads) = 1
    /\ cwd # reads[1]
    /\ ret.str # Normalize(AppendAll(cwd, Parts, 1, platformStyle), platformStyle)

\* C9, as stated: in a resolve call with an absolute argument the current
\* directory is never read.
C9_NoReadWhenAbsolute ==
    (Returned("resolve") /\ AbsoluteParts # {}) => reads = <<>>

\* C9, amended: every resolve call that passes the arity check reads the
\* current directory once, at its start, also when an argument is absolute;
\* with an absolute argument the value read does not reach the result.
C9_ReadOnceAtStart ==
    op = "resolve" =>
        /\ Len(reads) = (IF Len(args) > 0 THEN 1 ELSE 0)
        /\ (Returned("resolve") /\ AbsoluteParts # {}) =>
               \A d \in Dirs(platformStyle) :
                   ret.str = Normalize(AppendAll(d, Parts, 1, platformStyle), platformStyle)

C9_Witness ==
    /\ Returned("resolve")
    /\ AbsoluteParts # {}
    /\ Len(reads) = 1
    /\ reads[1] # cwd

EndsWith(s, suffix) ==
    Len(suffix) <= Len(s) /\ SubSeq(s, Len(s) - Len(suffix) + 1, Len(s)) = suffix

\* C3: basename(path, suffix) is the last segment without the suffix exactly
\* when the last segment ends with the suffix, and the last segment unchanged
\* otherwise.
C3_BasenameStripsTrailingSuffix ==
    (Returned("basename") /\ Len(args) = 2) =>
        LET name == Filename(Parts[1], platformStyle)
        IN  ret.str = IF EndsWith(name, Parts[2])
                      THEN SubSeq(name, 1, Len(name) - Len(Parts[2]))
                      ELSE name

\* the arguments each operation accepts (design 6)
WellTyped(o, list) ==
    CASE o \in {"normalize", "dirname", "extname", "isAbsolute"} ->
            Len(list) = 1 /\ AllStrings(list)
      [] o = "relative" -> Len(list) = 2 /\ AllStrings(list)
      [] o = "basename" -> Len(list) \in {1, 2} /\ AllStrings(list)
      [] o \in {"join", "resolve"} -> Len(list) >= 1 /\ AllStrings(list)
      [] OTHER -> TRUE

\* the messages each operation's argument checks throw
Messages(o) ==
    CASE o = "normalize" -> {"path.normalize requires 1 string parameter of file path."}
      [] o = "resolve" -> {"path.resolve requires at least one string parameters.",
                           "path.resolve doesn't accept non-string argument."}
      [] o = "join" -> {"path.join requires at least one string parameters.",
                        "path.join doesn't accept non-string argument."}
      [] o = "dirname" -> {"path.dirname requires 1 string parameter of file path."}
      [] o = "basename" ->
            {"path.basename takes 1 required argument of file path and 1 optional argument of extension",
             "path.basename requires a string parameter of file path.",
             "path.basename requires a string as 2nd parameter of extension."}
      [] o = "extname" -> {"path.extname requires 1 string parameter of file path."}
      [] o = "isAbsolute" -> {"path.isAbsolute requires 1 string parameter of file path."}
      [] o = "relative" -> {"path.relative requires 2 arguments of string type."}
      [] OTHER -> {}

\* C5: a call with a wrong number of arguments, or with a non-string in any
\* position, ends with an exception of the operation pending and no return
\* value set.
C5_InvalidArgument ==
    (pc = "idle" /\ ~WellTyped(op, args)) => (thrown \in Messages(op) /\ ret = Unset)

C5_Witness ==
    /\ pc = "idle"
    /\ op = "join"
    /\ Len(args) = 3
    /\ IsString(args[1])
    /\ IsString(args[2])
    /\ ~IsString(args[3])
    /\ thrown = "path.join doesn't accept non-string argument."
    /\ ret = Unset

\* C6: join never reads the current directory, and of relative parts it
\* makes a relative path.
C6_JoinNeverAnchors ==
    Returned("join") =>
        /\ reads = <<>>
        /\ AbsoluteParts = {} => ~IsAbsolute(ret.str, platformStyle)

\* C7: normalize is idempotent.
C7_NormalizeIdempotent ==
    Returned("normalize") => NormalizeValue(ret.str, platformStyle) = ret.str

\* <<leading '..' kept, names left>> after segs[k..], counted without a stack
RECURSIVE Climb(_, _, _, _)
Climb(segs, k, up, depth) ==
    IF k > Len(segs) THEN <<up, depth>>
    ELSE IF segs[k] = Dot THEN Climb(segs, k + 1, up, depth)
    ELSE IF segs[k] = DotDot
         THEN IF depth > 0 THEN Climb(segs, k + 1, up, depth - 1)
              ELSE Climb(segs, k + 1, up + 1, depth)
         ELSE Climb(segs, k + 1, up, depth + 1)

C8_RelativeRoute ==
    Returned("relative") =>
        LET f == Parse(ResolveValue(Parts[1], cwd, platformStyle), platformStyle)
            t == Parse(ResolveValue(Parts[2], cwd, platformStyle), platformStyle)
            common == {n \in 0..Len(f.segments) :
                          /\ n <= Len(t.segments)
                          /\ SubSeq(f.segments, 1, n) = SubSeq(t.segments, 1, n)}
            n == CHOOSE m \in common : \A j \in common : j <= m
            route == Ups(Len(f.segments) - n) \o SubSeq(t.segments, n + 1, Len(t.segments))
        IN  f.rootPrefix = t.rootPrefix =>
                /\ (f.segments = t.segments) <=> (ret.str = Dot)
                /\ f.segments # t.segments =>
                       /\ Split(ret.str) = route
                       /\ ret.str = Flatten(route, Sep(platformStyle))

C8_Witness ==
    /\ Returned("relative")
    /\ platformStyle = "windows"
    /\ cwd = <<"d", ":", "\\", "c">>
    /\ Parts[1] = <<"c">>
    /\ Parts[2] = <<"d">>
    /\ ret.str = <<".", ".", "\\", "d">>

====
